---- MODULE Spec2Model ----
(***************************************************************************)
(* Order management system (src/sistema_pedidos.py): an in-memory product  *)
(* catalog with stock, an in-memory order repository with sequential ids,  *)
(* a console notifier, and the OrderService workflow wired over them.      *)
(*                                                                         *)
(* Prices are integer cents.  Optional[T] is a sequence of length <= 1:    *)
(* None is << >>, a present value x is <<x>>.  A Python dict is a sequence *)
(* of [key, value] entries in insertion order.  An OrderItem refers to its *)
(* Product by the product's id (the catalog owns the Product object, the   *)
(* item aliases it).  Order.created_at is read by no operation and is left *)
(* out.  The console is the sequence of lines the program prints, each     *)
(* line a record of the values it formats.  Product names are written in   *)
(* ASCII.                                                                  *)
(***************************************************************************)
EXTENDS Integers, Sequences, FiniteSets, TLC

\* ---------------------------------------------------------------- bounds
\* create_order calls (SpecRepo: save calls) in one behaviour
MaxCalls == 3
\* (productId, quantity) pairs submitted over all create_order calls
MaxTotalItems == 3

\* ---------------------------------------------------------------- inputs
Customers == {"Maria Gonzalez"}
\* pairs a caller may put in an item list: the two demo requests of main(),
\* two ids that are not in the catalog, and a quantity that two pairs exhaust
ItemPairs == {<<1, 1>>, <<2, 2>>, <<4, 1>>, <<1, 10>>, <<9, 1>>, <<7, 1>>, <<1, 3>>}
\* identifiers asked of get_order / find_by_id
OrderIds == 0 .. 2

RECURSIVE SeqsUpTo(_, _)
SeqsUpTo(S, n) ==
    IF n = 0 THEN {<< >>}
    ELSE LET shorter == SeqsUpTo(S, n - 1)
         IN  shorter \cup {Append(s, x) : s \in {t \in shorter : Len(t) = n - 1}, x \in S}

\* the item lists of at most n pairs, for every n a call may still submit
ItemLists == [n \in 0 .. MaxTotalItems |-> SeqsUpTo(ItemPairs, n)]

\* ---------------------------------------------------------------- values
None == << >>
Some(x) == <<x>>
IsNone(o) == o = << >>
Value(o) == o[1]

\* dict[k] = v, dict.get(k), list(dict.values()), k in dict
DictHas(d, k) == \E i \in 1 .. Len(d) : d[i].key = k
DictGet(d, k) ==
    IF DictHas(d, k) THEN Some(d[CHOOSE i \in 1 .. Len(d) : d[i].key = k].value) ELSE None
DictSet(d, k, v) ==
    IF DictHas(d, k)
    THEN [i \in 1 .. Len(d) |-> IF d[i].key = k THEN [key |-> k, value |-> v] ELSE d[i]]
    ELSE Append(d, [key |-> k, value |-> v])
DictValues(d) == [i \in 1 .. Len(d) |-> d[i].value]
DictKeys(d) == {d[i].key : i \in 1 .. Len(d)}

\* ---------------------------------------------------------------- models
Product(id, name, price, stock) ==
    [id |-> id, name |-> name, price |-> price, stock |-> stock]

OrderItem(product, quantity) == [product |-> product, quantity |-> quantity]

Order(id, customer_name, items) ==
    [id |-> id, customer_name |-> customer_name, items |-> items, status |-> "pending"]

\* InMemoryProductRepository.__init__: the seeded catalog
SeedProducts ==
    (1 :> Product(1, "Laptop Gaming", 120000, 5)) @@
    (2 :> Product(2, "Mouse Inalambrico", 4599, 20)) @@
    (3 :> Product(3, "Teclado Mecanico", 8999, 15)) @@
    (4 :> Product(4, "Monitor 24", 29999, 8))
SeedOrder == <<1, 2, 3, 4>>

VARIABLES
    products,           \* InMemoryProductRepository._products
    orders,             \* InMemoryOrderRepository._orders
    next_id,            \* InMemoryOrderRepository._next_id
    notification_type,  \* DependencyContainer.notification_type
    last,               \* the most recent call: its arguments, the state it started from, its result and what it printed
    returned,           \* the orders returned by the successful create_order calls, in call order
    leaked,             \* some create_order failed after decrementing an earlier item
    calls,              \* calls counted against MaxCalls
    submitted           \* pairs counted against MaxTotalItems

vars == <<products, orders, next_id, notification_type, last, returned, leaked, calls, submitted>>

\* ---------------------------------------------------------- repositories
\* fault: the counter is not advanced after an id is assigned
OrderRepository_save_NoIncrement(repo, order) ==
    LET saved == IF IsNone(order.id) THEN [order EXCEPT !.id = Some(repo.next_id)] ELSE order
    IN  [orders  |-> DictSet(repo.orders, Value(saved.id), saved),
         next_id |-> repo.next_id,
         order   |-> saved,
         out     |-> <<[line |-> "saved", id |-> saved.id]>>]

\* fault: the record is stored under the counter instead of the order's id
OrderRepository_save_KeyIsCounter(repo, order) ==
    LET fresh == IsNone(order.id)
        saved == IF fresh THEN [order EXCEPT !.id = Some(repo.next_id)] ELSE order
        next  == IF fresh THEN repo.next_id + 1 ELSE repo.next_id
    IN  [orders  |-> DictSet(repo.orders, next, saved),
         next_id |-> next,
         order   |-> saved,
         out     |-> <<[line |-> "saved", id |-> saved.id]>>]

\* fault: an id is assigned whether or not the order has one
OrderRepository_save_AlwaysAssign(repo, order) ==
    LET saved == [order EXCEPT !.id = Some(repo.next_id)]
    IN  [orders  |-> DictSet(repo.orders, Value(saved.id), saved),
         next_id |-> repo.next_id + 1,
         order   |-> saved,
         out     |-> <<[line |-> "saved", id |-> saved.id]>>]

\* InMemoryOrderRepository.save: the order's id is set in place when it has
\* none; the dict entry under that id is written; one line is printed.
OrderRepository_save(repo, order) ==
    LET fresh == IsNone(order.id)
        saved == IF fresh THEN [order EXCEPT !.id = Some(repo.next_id)] ELSE order
    IN  [orders  |-> DictSet(repo.orders, Value(saved.id), saved),
         next_id |-> IF fresh THEN repo.next_id + 1 ELSE repo.next_id,
         order   |-> saved,
         out     |-> <<[line |-> "saved", id |-> saved.id]>>]

OrderRepository_find_by_id(repo, order_id) == DictGet(repo.orders, order_id)

OrderRepository_find_all(repo) == DictValues(repo.orders)

\* InMemoryProductRepository.find_by_id: prints only when the product exists
ProductRepository_find_by_id(prods, product_id) ==
    LET product == IF product_id \in DOMAIN prods THEN Some(prods[product_id]) ELSE None
    IN  [product |-> product,
         out     |-> IF IsNone(product) THEN << >>
                     ELSE <<[line |-> "found", name |-> Value(product).name]>>]

ProductRepository_find_all(prods) ==
    [i \in 1 .. Len(SeedOrder) |-> prods[SeedOrder[i]]]

\* fault: the membership test is inverted, a known product is left alone
ProductRepository_update_stock_Skipped(prods, product_id, new_stock) ==
    IF product_id \notin DOMAIN prods
    THEN [products |-> [prods EXCEPT ![product_id].stock = new_stock],
          out      |-> <<[line |-> "stock", product_id |-> product_id,
                          old_stock |-> prods[product_id].stock, new_stock |-> new_stock]>>]
    ELSE [products |-> prods, out |-> << >>]

\* InMemoryProductRepository.update_stock: no bounds check, no effect on an unknown id
ProductRepository_update_stock(prods, product_id, new_stock) ==
    IF product_id \in DOMAIN prods
    THEN [products |-> [prods EXCEPT ![product_id].stock = new_stock],
          out      |-> <<[line |-> "stock", product_id |-> product_id,
                          old_stock |-> prods[product_id].stock, new_stock |-> new_stock]>>]
    ELSE [products |-> prods, out |-> << >>]

\* ---------------------------------------------------------------- totals
\* fault: the quantity is left out of the subtotal
OrderItem_subtotal_PriceOnly(item, prods) == prods[item.product].price

\* OrderItem.subtotal: the price is read through the item's product reference
OrderItem_subtotal(item, prods) == prods[item.product].price * item.quantity

RECURSIVE SumSubtotals(_, _, _)
SumSubtotals(items, i, prods) ==
    IF i > Len(items) THEN 0
    ELSE OrderItem_subtotal(items[i], prods) + SumSubtotals(items, i + 1, prods)

\* Order.total
Order_total(order, prods) == SumSubtotals(order.items, 1, prods)

\* ------------------------------------------------------------- notifiers
EmailNotificationService_send(order, prods) ==
    [line |-> "email", to |-> order.customer_name, id |-> order.id,
     total |-> Order_total(order, prods), status |-> order.status]

SMSNotificationService_send(order, prods) ==
    [line |-> "sms", to |-> order.customer_name, id |-> order.id,
     total |-> Order_total(order, prods)]

\* DependencyContainer.get_notification_service, then send_order_confirmation
send_order_confirmation(kind, order, prods) ==
    IF kind = "sms" THEN SMSNotificationService_send(order, prods)
    ELSE EmailNotificationService_send(order, prods)

\* ---------------------------------------------------------- OrderService
NoError == [type |-> "none"]

\* ValueError("Producto con ID {product_id} no encontrado")
ProductNotFound(product_id) == [type |-> "ProductNotFound", product_id |-> product_id]

\* fault: available and requested are swapped in the message
InsufficientStock_Swapped(product, quantity) ==
    [type |-> "InsufficientStock", name |-> product.name,
     available |-> quantity, requested |-> product.stock]

\* ValueError("Stock insuficiente para {name}. Disponible: {stock}, Solicitado: {quantity}")
InsufficientStock(product, quantity) ==
    [type |-> "InsufficientStock", name |-> product.name,
     available |-> product.stock, requested |-> quantity]

\* ValueError("Orden con ID {order_id} no encontrada")
OrderNotFound(order_id) == [type |-> "OrderNotFound", order_id |-> order_id]

\* fault: the stock check is off by one
StockCheckFails_OffByOne(product, quantity) == product.stock < quantity - 1

\* if product.stock < quantity: raise
StockCheckFails(product, quantity) == product.stock < quantity

\* fault: a pair with an unknown product is skipped instead of raising
RECURSIVE create_order_items_SkipUnknown(_, _, _)
create_order_items_SkipUnknown(items, i, v) ==
    IF i > Len(items) THEN v
    ELSE LET product_id == items[i][1]
             quantity   == items[i][2]
             looked     == ProductRepository_find_by_id(v.products, product_id)
         IN  IF IsNone(looked.product)
             THEN create_order_items_SkipUnknown(items, i + 1, v)
             ELSE LET product == Value(looked.product)
                  IN  IF StockCheckFails(product, quantity)
                      THEN [v EXCEPT !.out = v.out \o looked.out,
                                     !.error = InsufficientStock(product, quantity),
                                     !.failed_at = i]
                      ELSE LET order_item == OrderItem(product.id, quantity)
                               added == [line |-> "added", quantity |-> quantity,
                                         name |-> product.name,
                                         subtotal |-> OrderItem_subtotal(order_item, v.products)]
                               new_stock == product.stock - quantity
                               updated == ProductRepository_update_stock(
                                              v.products, product_id, new_stock)
                           IN  create_order_items_SkipUnknown(items, i + 1,
                                   [v EXCEPT !.products = updated.products,
                                             !.order_items = Append(v.order_items, order_item),
                                             !.out = v.out \o looked.out \o <<added>>
                                                     \o updated.out])

\* The for loop of create_order from pair i on.  v holds the catalog, the
\* order_items list and the console as the loop has left them; a raise ends
\* the loop with the error and the position of the pair that raised.
RECURSIVE create_order_items(_, _, _)
create_order_items(items, i, v) ==
    IF i > Len(items) THEN v
    ELSE LET product_id == items[i][1]
             quantity   == items[i][2]
             looked     == ProductRepository_find_by_id(v.products, product_id)
         IN  IF IsNone(looked.product)
             THEN [v EXCEPT !.out = v.out \o looked.out,
                            !.error = ProductNotFound(product_id),
                            !.failed_at = i]
             ELSE LET product == Value(looked.product)
                  IN  IF StockCheckFails(product, quantity)
                      THEN [v EXCEPT !.out = v.out \o looked.out,
                                     !.error = InsufficientStock(product, quantity),
                                     !.failed_at = i]
                      ELSE LET order_item == OrderItem(product.id, quantity)
                               added == [line |-> "added", quantity |-> quantity,
                                         name |-> product.name,
                                         subtotal |-> OrderItem_subtotal(order_item, v.products)]
                               new_stock == product.stock - quantity
                               updated == ProductRepository_update_stock(
                                              v.products, product_id, new_stock)
                           IN  create_order_items(items, i + 1,
                                   [v EXCEPT !.products = updated.products,
                                             !.order_items = Append(v.order_items, order_item),
                                             !.out = v.out \o looked.out \o <<added>>
                                                     \o updated.out])

\* what create_order leaves behind when the loop raised: nothing is saved,
\* nothing is sent, the catalog is as the loop left it
Raised(st, v) ==
    [products |-> v.products, orders |-> st.orders, next_id |-> st.next_id,
     ok |-> FALSE, error |-> v.error, order |-> None, out |-> v.out,
     notified |-> << >>, failed_at |-> v.failed_at]

LoopStart(st, customer_name) ==
    [products |-> st.products, order_items |-> << >>,
     out |-> <<[line |-> "creating", customer_name |-> customer_name]>>,
     error |-> NoError, failed_at |-> 0]

\* one invocation of the notifier: the order it was handed, and whether the
\* order repository held that order at that moment
Invocation(repo, order) ==
    [order |-> order,
     stored |-> ~IsNone(order.id)
                /\ OrderRepository_find_by_id(repo, Value(order.id)) = Some(order)]

\* fault: the confirmation is sent before the order is saved
OrderService_create_order_NotifyFirst(st, customer_name, items) ==
    LET v == create_order_items(items, 1, LoopStart(st, customer_name))
    IN  IF v.error.type # "none" THEN Raised(st, v)
        ELSE LET order == Order(None, customer_name, v.order_items)
                 sent  == send_order_confirmation(st.notification_type, order, v.products)
                 saved == OrderRepository_save(st, order)
             IN  [products |-> v.products, orders |-> saved.orders,
                  next_id |-> saved.next_id, ok |-> TRUE, error |-> NoError,
                  order |-> Some(saved.order),
                  out |-> v.out \o <<sent>> \o saved.out,
                  notified |-> <<Invocation(st, order)>>, failed_at |-> 0]

\* fault: a failed call restores the catalog it started from
OrderService_create_order_Rollback(st, customer_name, items) ==
    LET v == create_order_items(items, 1, LoopStart(st, customer_name))
    IN  IF v.error.type # "none" THEN Raised(st, [v EXCEPT !.products = st.products])
        ELSE LET order == Order(None, customer_name, v.order_items)
                 saved == OrderRepository_save(st, order)
                 sent  == send_order_confirmation(
                              st.notification_type, saved.order, v.products)
             IN  [products |-> v.products, orders |-> saved.orders,
                  next_id |-> saved.next_id, ok |-> TRUE, error |-> NoError,
                  order |-> Some(saved.order),
                  out |-> v.out \o saved.out \o <<sent>>,
                  notified |-> <<Invocation(saved, saved.order)>>, failed_at |-> 0]

\* OrderService.create_order on the repositories st: the catalog, the order
\* repository and the console lines it leaves, and its result (the order
\* returned, or the error raised)
OrderService_create_order(st, customer_name, items) ==
    LET v == create_order_items(items, 1, LoopStart(st, customer_name))
    IN  IF v.error.type # "none" THEN Raised(st, v)
        ELSE LET order == Order(None, customer_name, v.order_items)
                 saved == OrderRepository_save(st, order)
                 sent  == send_order_confirmation(
                              st.notification_type, saved.order, v.products)
             IN  [products |-> v.products, orders |-> saved.orders,
                  next_id |-> saved.next_id, ok |-> TRUE, error |-> NoError,
                  order |-> Some(saved.order),
                  out |-> v.out \o saved.out \o <<sent>>,
                  notified |-> <<Invocation(saved, saved.order)>>, failed_at |-> 0]

\* OrderService.get_order
OrderService_get_order(st, order_id) ==
    LET order == OrderRepository_find_by_id(st, order_id)
    IN  IF IsNone(order) THEN [ok |-> FALSE, error |-> OrderNotFound(order_id), order |-> None]
        ELSE [ok |-> TRUE, error |-> NoError, order |-> order]

\* OrderService.list_orders
OrderService_list_orders(st) == OrderRepository_find_all(st)

\* OrderService.get_available_products
OrderService_get_available_products(st) == ProductRepository_find_all(st.products)

\* ---------------------------------------------------------------- state
State ==
    [products |-> products, orders |-> orders, next_id |-> next_id,
     notification_type |-> notification_type]

NoCall ==
    [op |-> "none", customer_name |-> "", items |-> << >>, order_id |-> 0,
     arg |-> Order(None, "", << >>),
     pre |-> State, ok |-> TRUE, error |-> NoError, order |-> None, listed |-> << >>,
     out |-> << >>, notified |-> << >>, failed_at |-> 0, again |-> FALSE]

\* DependencyContainer(notification_type).get_order_service()
Init ==
    /\ products = SeedProducts
    /\ orders = << >>
    /\ next_id = 1
    /\ notification_type \in {"email", "sms"}
    /\ last = NoCall
    /\ returned = << >>
    /\ leaked = FALSE
    /\ calls = 0
    /\ submitted = 0

CreateOrder(customer_name, items) ==
    /\ calls < MaxCalls
    /\ submitted + Len(items) <= MaxTotalItems
    /\ \E r \in {OrderService_create_order(State, customer_name, items)} :
           /\ products' = r.products
           /\ orders' = r.orders
           /\ next_id' = r.next_id
           /\ last' = [NoCall EXCEPT !.op = "create_order",
                          !.customer_name = customer_name, !.items = items,
                          !.ok = r.ok, !.error = r.error, !.order = r.order,
                          !.out = r.out, !.notified = r.notified,
                          !.failed_at = r.failed_at]
           /\ returned' = IF r.ok THEN Append(returned, Value(r.order)) ELSE returned
           /\ leaked' = (leaked \/ (~r.ok /\ r.failed_at > 1))
    /\ calls' = calls + 1
    /\ submitted' = submitted + Len(items)
    /\ UNCHANGED notification_type

GetOrder(order_id) ==
    /\ LET r == OrderService_get_order(State, order_id)
       IN  last' = [NoCall EXCEPT !.op = "get_order", !.order_id = order_id,
                       !.ok = r.ok, !.error = r.error, !.order = r.order]
    /\ UNCHANGED <<products, orders, next_id, notification_type, returned, leaked,
                   calls, submitted>>

ListOrders ==
    /\ last' = [NoCall EXCEPT !.op = "list_orders",
                   !.listed = OrderService_list_orders(State)]
    /\ UNCHANGED <<products, orders, next_id, notification_type, returned, leaked,
                   calls, submitted>>

GetAvailableProducts ==
    /\ last' = [NoCall EXCEPT !.op = "get_available_products",
                   !.listed = OrderService_get_available_products(State)]
    /\ UNCHANGED <<products, orders, next_id, notification_type, returned, leaked,
                   calls, submitted>>

\* any sequence of calls on one OrderService
Next ==
    \/ \E c \in Customers, items \in ItemLists[MaxTotalItems - submitted] :
           CreateOrder(c, items)
    \/ \E id \in OrderIds : GetOrder(id)
    \/ ListOrders
    \/ GetAvailableProducts

Spec == Init /\ [][Next]_vars

\* ------------------------------------------- the order repository alone
\* orders a caller may hand to save: without an id, or with one of its own;
\* status is free text, two values tell one record from its replacement
RepoOrders ==
    {[Order(id, c, items) EXCEPT !.status = st] :
        id \in {None} \cup {Some(i) : i \in 1 .. 3}, c \in Customers,
        items \in {<<OrderItem(1, 1)>>}, st \in {"pending", "paid"}}

Repo == [orders |-> orders, next_id |-> next_id]

\* order_repository.save(order); again: order is the object the previous
\* call saved, as save left it
Save(order, again) ==
    /\ calls < MaxCalls \/ again
    /\ \E r \in {OrderRepository_save(Repo, order)} :
           /\ orders' = r.orders
           /\ next_id' = r.next_id
           /\ last' = [NoCall EXCEPT !.op = "save", !.arg = order, !.order = Some(r.order),
                          !.out = r.out, !.again = again]
    /\ calls' = IF again THEN calls ELSE calls + 1
    /\ UNCHANGED <<products, notification_type, returned, leaked, submitted>>

SaveNew == \E order \in RepoOrders : Save(order, FALSE)

SaveAgain == last.op = "save" /\ Save(Value(last.order), TRUE)

FindById(order_id) ==
    /\ last' = [NoCall EXCEPT !.op = "find_by_id", !.order_id = order_id,
                   !.order = OrderRepository_find_by_id(Repo, order_id)]
    /\ UNCHANGED <<products, orders, next_id, notification_type, returned, leaked,
                   calls, submitted>>

FindAll ==
    /\ last' = [NoCall EXCEPT !.op = "find_all", !.listed = OrderRepository_find_all(Repo)]
    /\ UNCHANGED <<products, orders, next_id, notification_type, returned, leaked,
                   calls, submitted>>

NextRepo ==
    \/ SaveNew
    \/ SaveAgain
    \/ \E id \in OrderIds : FindById(id)
    \/ FindAll

SpecRepo == Init /\ [][NextRepo]_vars

\* ------------------------------------------------- create_order, restated
\* The outcome of the most recent create_order, worked out from its item
\* list and the catalog it started from, without running the loop.
IsCreate == last.op = "create_order"
Positions == 1 .. Len(last.items)
Pid(i) == last.items[i][1]
Qty(i) == last.items[i][2]
InCatalog(pid) == pid \in DOMAIN SeedProducts

\* the quantity the pairs before position k ask of product pid
RECURSIVE QtyBefore(_, _, _)
QtyBefore(items, k, pid) ==
    IF k <= 1 THEN 0
    ELSE (IF items[k - 1][1] = pid THEN items[k - 1][2] ELSE 0) + QtyBefore(items, k - 1, pid)

QtyAll(items, pid) == QtyBefore(items, Len(items) + 1, pid)

\* the stock the pair at position i meets when all pairs before it were accepted
StockAtCheck(i) == last.pre.products[Pid(i)].stock - QtyBefore(last.items, i, Pid(i))
Unknown(i) == ~InCatalog(Pid(i))
Short(i) == InCatalog(Pid(i)) /\ Qty(i) > StockAtCheck(i)
Rejected(i) == Unknown(i) \/ Short(i)
FirstRejected == CHOOSE k \in Positions : Rejected(k) /\ \A j \in 1 .. k - 1 : ~Rejected(j)
FirstUnknown == CHOOSE k \in Positions : Unknown(k) /\ \A j \in 1 .. k - 1 : ~Unknown(j)

RECURSIVE PriceSum(_, _)
PriceSum(items, k) ==
    IF k = 0 THEN 0
    ELSE SeedProducts[items[k][1]].price * items[k][2] + PriceSum(items, k - 1)

\* stock of every product = its stock before the call less what the pairs before position k asked of it
StockLessPairsBefore(k) ==
    \A pid \in DOMAIN products :
        products[pid].stock = last.pre.products[pid].stock - QtyBefore(last.items, k, pid)

Demo1 == <<<<1, 1>>, <<2, 2>>, <<4, 1>>>>
Demo2 == <<<<1, 10>>>>

\* C1: after any sequence of create_order calls with positive quantities,
\* failing or not, the stock of every product of the catalog is >= 0.
C1_StockNeverNegative == \A pid \in DOMAIN products : products[pid].stock >= 0

\* a call stopped by the stock check after its own earlier pair had taken
\* stock the rejected pair would have needed
C1_Witness ==
    /\ IsCreate /\ ~last.ok /\ last.error.type = "InsufficientStock"
    /\ last.failed_at > 1
    /\ QtyBefore(last.items, last.failed_at, Pid(last.failed_at)) > 0
    /\ products[Pid(last.failed_at)].stock < Qty(last.failed_at)

C2_Outcome ==
    /\ last.ok
    /\ Value(last.order).items = [i \in Positions |-> OrderItem(Pid(i), Qty(i))]
    /\ Order_total(Value(last.order), products) = PriceSum(last.items, Len(last.items))
    /\ StockLessPairsBefore(Len(last.items) + 1)

C2_Instance ==
    (last.items = Demo1 /\ last.pre.products = SeedProducts) =>
        /\ last.ok
        /\ Order_total(Value(last.order), products) = 159197
        /\ products[1].stock = 4 /\ products[2].stock = 18 /\ products[4].stock = 7

\* C2 as claimed: when every productId is in the catalog and every pair's
\* quantity is at most its product's stock at the moment of the call,
\* create_order succeeds, the total is the sum of price x quantity and each
\* stock decreases by the quantity requested of it.
C2_AsClaimed ==
    (IsCreate /\ \A i \in Positions :
                    InCatalog(Pid(i)) /\ Qty(i) <= last.pre.products[Pid(i)].stock)
        => C2_Outcome

\* C2 amended: when every productId is in the catalog and every pair's
\* quantity, added to the quantities of the earlier pairs of the list that
\* name the same product, is at most that product's stock at the moment of
\* the call, create_order succeeds, the returned order's total is the sum over
\* its items of unit price x quantity, and the stock of each product decreases
\* by exactly the sum of the quantities the list requests of it.  On the
\* seeded catalog [(1,1),(2,2),(4,1)] gives total 159197 cents and stocks
\* 1->4, 2->18, 4->7.
C2_TotalAndStock ==
    IsCreate =>
        /\ (\A i \in Positions :
                InCatalog(Pid(i))
                /\ Qty(i) + QtyBefore(last.items, i, Pid(i))
                       <= last.pre.products[Pid(i)].stock)
               => C2_Outcome
        /\ C2_Instance

\* a successful call whose list names one product twice, with a quantity other than 1
C2_Witness ==
    /\ IsCreate /\ last.ok
    /\ \E i, j \in Positions : i < j /\ Pid(i) = Pid(j) /\ Qty(j) > 1
    /\ \E i \in Positions : Pid(i) # Pid(1)

\* C3 as claimed: a create_order whose list holds an unknown productId fails
\* with the product-not-found error naming the first unknown id of the list.
C3_AsClaimed ==
    (IsCreate /\ \E i \in Positions : Unknown(i)) =>
        /\ ~last.ok
        /\ last.error.type = "ProductNotFound"
        /\ last.error.product_id = Pid(FirstUnknown)

\* C3 amended: a create_order whose list holds an unknown productId, and in
\* which no pair before the first unknown one asks more than the stock of its
\* product at the moment of its check, fails with the product-not-found error
\* naming the first unknown id of the list.
C3_FirstUnknownReported ==
    (IsCreate /\ (\E i \in Positions : Unknown(i))
              /\ \A j \in 1 .. FirstUnknown - 1 : ~Short(j)) =>
        /\ ~last.ok
        /\ last.error.type = "ProductNotFound"
        /\ last.error.product_id = Pid(FirstUnknown)

\* two different unknown ids in one list, after a pair that was accepted
C3_Witness ==
    /\ IsCreate /\ ~last.ok /\ last.error.type = "ProductNotFound"
    /\ last.failed_at > 1
    /\ \E i \in Positions : Unknown(i) /\ Pid(i) # last.error.product_id

C4_Carries(i) ==
    /\ last.error.name = SeedProducts[Pid(i)].name
    /\ last.error.available = StockAtCheck(i)
    /\ last.error.requested = Qty(i)

C4_Instance ==
    (last.items = Demo2 /\ last.pre.products[1].stock = 5) =>
        /\ ~last.ok
        /\ last.error.type = "InsufficientStock"
        /\ last.error.available = 5 /\ last.error.requested = 10

\* C4 as claimed: a create_order in which some pair's quantity exceeds the
\* available stock of its product fails with the insufficient-stock error
\* carrying that product's name, its stock at the check and the quantity.
C4_AsClaimed ==
    (IsCreate /\ \E i \in Positions : Short(i)) =>
        /\ ~last.ok
        /\ last.error.type = "InsufficientStock"
        /\ \E i \in Positions : Short(i) /\ C4_Carries(i)

\* C4 amended: a create_order in which the first pair that fails validation
\* (its productId unknown, or its quantity above the stock of its product at
\* the moment of its check) fails on stock, fails with the insufficient-stock
\* error carrying that product's name, the stock available for it at the
\* moment of the check and the requested quantity of that pair.
\* [(1,10)] against stock 5 fails with available = 5, requested = 10.
C4_FirstShortReported ==
    IsCreate =>
        /\ ((\E i \in Positions : Rejected(i)) /\ Short(FirstRejected)) =>
               /\ ~last.ok
               /\ last.error.type = "InsufficientStock"
               /\ C4_Carries(FirstRejected)
        /\ C4_Instance

\* the rejected pair met less stock than the catalog held when the call began
C4_Witness ==
    /\ IsCreate /\ ~last.ok /\ last.error.type = "InsufficientStock"
    /\ last.error.available < last.pre.products[Pid(last.failed_at)].stock
    /\ last.error.available > 0

\* C5: when create_order fails at the pair at position k, the stock of every
\* product is its stock before the call less the quantities of the pairs
\* before k (kept, not rolled back; products named only at k or later are
\* unchanged), no order is added to the order store, its next-identifier
\* counter is unchanged, and the notifier is not invoked.
C5_FailureFrame ==
    (IsCreate /\ ~last.ok) =>
        /\ last.failed_at \in Positions
        /\ last.failed_at = FirstRejected
        /\ StockLessPairsBefore(last.failed_at)
        /\ orders = last.pre.orders
        /\ next_id = last.pre.next_id
        /\ last.notified = << >>
        /\ \A n \in 1 .. Len(last.out) : last.out[n].line \notin {"saved", "email", "sms"}
        /\ IsNone(last.order)

\* a failure at position 3: one product keeps a decrement, the product of
\* the rejected pair is named only there and is unchanged
C5_Witness ==
    /\ IsCreate /\ ~last.ok /\ last.failed_at = 3
    /\ products[Pid(1)].stock < last.pre.products[Pid(1)].stock
    /\ InCatalog(Pid(3)) /\ Pid(3) \notin {Pid(1), Pid(2)}
    /\ products[Pid(3)].stock = last.pre.products[Pid(3)].stock

\* C6: the identifiers the order store assigns are 1, 2, 3, ... in the order
\* of the save calls, none assigned twice: the n-th successful create_order
\* returns the order with identifier n, whatever failed calls came between.
C6_SequentialIds ==
    /\ \A n \in 1 .. Len(returned) : returned[n].id = Some(n)
    /\ next_id = Len(returned) + 1
    /\ (IsCreate /\ last.ok) =>
           /\ last.order = Some(returned[Len(returned)])
           /\ next_id = last.pre.next_id + 1
    /\ (IsCreate /\ ~last.ok) => next_id = last.pre.next_id

\* the second successful call of three
C6_Witness ==
    /\ IsCreate /\ last.ok /\ calls = 3
    /\ Len(returned) = 2 /\ Value(last.order).id = Some(2)

\* C7: list_orders returns exactly the orders the successful create_order
\* calls returned, each once, in an order fixed by those calls alone (so two
\* listings with no save between agree); get_order(id) returns that same
\* order for each of their identifiers and fails with the order-not-found
\* error for any identifier save never assigned.
C7_Queries ==
    /\ last.op = "list_orders" =>
           /\ Len(last.listed) = Len(returned)
           /\ {last.listed[n] : n \in 1 .. Len(last.listed)}
                  = {returned[n] : n \in 1 .. Len(returned)}
           /\ last.listed = returned
    /\ last.op = "get_order" =>
           IF \E n \in 1 .. Len(returned) : returned[n].id = Some(last.order_id)
           THEN /\ last.ok
                /\ \E n \in 1 .. Len(returned) :
                       returned[n].id = Some(last.order_id) /\ last.order = Some(returned[n])
           ELSE /\ ~last.ok
                /\ last.error.type = "OrderNotFound"
                /\ last.error.order_id = last.order_id

\* the second of two orders is fetched after a failed call
C7_Witness ==
    /\ last.op = "get_order" /\ last.ok /\ last.order_id = 2
    /\ Len(returned) = 2 /\ calls = 3

\* C8: in a successful create_order the console shows, per pair in caller
\* order, the lookup, the item and the stock update of that pair before the
\* lookup of the next, each update starting from the stock the earlier pairs
\* left; then the save with the assigned identifier; then one confirmation.
\* The notifier is invoked exactly once, with the order that carries its
\* identifier and that the order store holds at that moment.
C8_OrderOfEffects ==
    (IsCreate /\ last.ok) =>
        LET n == Len(last.items)
            out == last.out
            order == Value(last.order)
        IN  /\ Len(out) = 3 * n + 3
            /\ out[1].line = "creating"
            /\ \A i \in 1 .. n :
                   /\ out[3 * i - 1].line = "found"
                   /\ out[3 * i - 1].name = SeedProducts[Pid(i)].name
                   /\ out[3 * i].line = "added"
                   /\ out[3 * i].quantity = Qty(i)
                   /\ out[3 * i + 1].line = "stock"
                   /\ out[3 * i + 1].product_id = Pid(i)
                   /\ out[3 * i + 1].old_stock = StockAtCheck(i)
                   /\ out[3 * i + 1].new_stock = StockAtCheck(i) - Qty(i)
            /\ out[3 * n + 2].line = "saved"
            /\ out[3 * n + 2].id = order.id
            /\ out[3 * n + 3].line = last.pre.notification_type
            /\ out[3 * n + 3].id = order.id
            /\ ~IsNone(order.id)
            /\ Len(last.notified) = 1
            /\ last.notified[1].order = order
            /\ last.notified[1].stored

\* a successful call whose second pair meets the stock its first pair left
C8_Witness ==
    /\ IsCreate /\ last.ok /\ Len(last.items) >= 2
    /\ Pid(1) = Pid(2)
    /\ last.pre.notification_type = "sms"

\* the quantity of product pid over the items of all persisted orders
RECURSIVE QtyInOrders(_, _, _)
QtyInOrders(stored, n, pid) ==
    IF n = 0 THEN 0
    ELSE LET items == stored[n].items
         IN  QtyBefore([i \in 1 .. Len(items) |-> <<items[i].product, items[i].quantity>>],
                       Len(items) + 1, pid)
             + QtyInOrders(stored, n - 1, pid)

Sold(pid) == QtyInOrders(DictValues(orders), Len(orders), pid)

\* C10: for every product the quantity of it over the items of all persisted
\* orders is at most its seeded stock less its current stock, and equal to
\* that when no create_order has failed after decrementing an earlier item.
C10_StockAccounting ==
    \A pid \in DOMAIN SeedProducts :
        /\ Sold(pid) <= SeedProducts[pid].stock - products[pid].stock
        /\ ~leaked => Sold(pid) = SeedProducts[pid].stock - products[pid].stock

\* stock that left the catalog into no order, beside stock that an order holds
C10_Witness ==
    /\ leaked
    /\ Len(orders) >= 1
    /\ \E pid \in DOMAIN SeedProducts :
           /\ Sold(pid) > 0
           /\ Sold(pid) < SeedProducts[pid].stock - products[pid].stock

\* C9: save on an order that has an identifier writes the record under that
\* identifier and nothing else: the other records, the next-identifier counter
\* and the order's identifier are as before, the stored identifiers are those
\* of before plus this one (the same set when it was stored already), and
\* saving the same order again leaves the store as the first save left it.
C9_SaveOverwrites ==
    /\ (last.op = "save" /\ ~IsNone(last.arg.id)) =>
           LET id == Value(last.arg.id)
               before == last.pre.orders
           IN  /\ last.order = Some(last.arg)
               /\ next_id = last.pre.next_id
               /\ DictGet(orders, id) = Some(last.arg)
               /\ \A k \in DictKeys(before) \ {id} : DictGet(orders, k) = DictGet(before, k)
               /\ DictKeys(orders) = DictKeys(before) \cup {id}
               /\ Len(orders) = Cardinality(DictKeys(orders))
               /\ id \in DictKeys(before) =>
                      /\ DictKeys(orders) = DictKeys(before)
                      /\ Len(orders) = Len(before)
    /\ (last.op = "save" /\ last.again) =>
           /\ orders = last.pre.orders
           /\ next_id = last.pre.next_id
           /\ last.order = Some(last.arg)

\* a stored record is replaced by a different order with the same identifier
C9_Witness ==
    /\ last.op = "save" /\ ~last.again
    /\ ~IsNone(last.arg.id)
    /\ DictHas(last.pre.orders, Value(last.arg.id))
    /\ DictGet(last.pre.orders, Value(last.arg.id)) # Some(last.arg)
    /\ Len(orders) >= 2

====
